---- MODULE Spec2Model ----
(***************************************************************************)
(* Model of custom_components/remote_homeassistant/config_flow.py:         *)
(* the connection setup flow (ConfigFlow.async_step_user) and the options  *)
(* wizard (OptionsFlowHandler), a four-step flow init ->                   *)
(* domain_entity_filters -> general_filters -> events.                     *)
(*                                                                         *)
(* Conventions.                                                            *)
(*  - A Python str that the code formats, splits or parses is a sequence   *)
(*    of one-character strings; opaque names (event names, the entity      *)
(*    prefix, hosts, tokens, uuids) are TLA+ strings.                      *)
(*  - An optional value (a dict key that may be absent, a value that may   *)
(*    be None, vol.UNDEFINED) is <<>> when missing and <<v>> when present. *)
(*  - A float is the integer number of its tenths (15 is 1.5).             *)
(*  - A dict with a known key set is a record whose fields are optional    *)
(*    values.                                                              *)
(*  - The filter list is the only object this module mutates in place, so  *)
(*    lists of filters live in a heap and are named by reference.          *)
(***************************************************************************)
EXTENDS Integers, Sequences, FiniteSets, TLC

VARIABLES
    \* ---- options wizard (OptionsFlowHandler), one entry per instance
    step,           \* the step whose form the instance is waiting on
    filters,        \* self.filters: <<>> (None) or <<ref>>
    events,         \* self.events: <<>> (None) or <<set of names>>
    options,        \* self.options: <<>> (None) or <<dict>>
    result,         \* the last value returned to the flow manager
    submitted,      \* history: the steps that have received a submission, in order
    readded,        \* history: the names submitted as add_new_event while in self.events
    \* ---- shared with the wizard
    entryOptions,   \* config_entry.options, the persisted options mapping
    heap,           \* the list objects holding filters, by reference
    remoteEntities, \* remote._all_entity_names
    writes,         \* async_create_entry calls of the wizard so far
    \* ---- connection setup flow (ConfigFlow), one entry per flow
    uflow,          \* the position of each flow and what it returned
    entries         \* the registered config entries

wvars == <<step, filters, events, options, result, submitted, readded,
           entryOptions, heap, remoteEntities, writes>>
uvars == <<uflow, entries>>
vars == <<step, filters, events, options, result, submitted, readded,
          entryOptions, heap, remoteEntities, writes, uflow, entries>>

-----------------------------------------------------------------------------
(* Bounds of the model *)

\* The in-memory filter list is not grown beyond this length.
MaxFilters == 3
\* A selection submitted together with a new event is at most this long.
MaxSelected == 2
\* Submissions of the user form per setup flow.
MaxAttempts == 2

-----------------------------------------------------------------------------
(* Optional values *)

NONE == <<>>
Some(v) == <<v>>
\* dict.get(key, default) on an optional value
Get(opt, dflt) == IF opt = NONE THEN dflt ELSE opt[1]

Range(s) == {s[i] : i \in 1..Len(s)}

\* All sequences without repetition over the set S, of length at most n.
RECURSIVE InjSeqs(_, _)
InjSeqs(S, n) ==
    IF n = 0 \/ S = {} THEN {<<>>}
    ELSE {<<>>} \cup UNION {{<<x>> \o t : t \in InjSeqs(S \ {x}, n - 1)} : x \in S}

-----------------------------------------------------------------------------
(* str, int and float conversions *)

Digits == <<"0", "1", "2", "3", "4", "5", "6", "7", "8", "9">>

IsDigit(c) == \E d \in 1..10 : Digits[d] = c
DigitVal(c) == (CHOOSE d \in 1..10 : Digits[d] = c) - 1

\* str(n) for an int n >= 0
RECURSIVE IntToStr(_)
IntToStr(n) ==
    IF n < 10 THEN <<Digits[n + 1]>>
    ELSE IntToStr(n \div 10) \o <<Digits[(n % 10) + 1]>>

\* int(s) is defined for a non-empty string of decimal digits (ValueError otherwise)
IsIntStr(s) == Len(s) > 0 /\ \A i \in 1..Len(s) : IsDigit(s[i])

RECURSIVE StrToInt(_)
StrToInt(s) ==
    IF Len(s) = 0 THEN 0
    ELSE 10 * StrToInt(SubSeq(s, 1, Len(s) - 1)) + DigitVal(s[Len(s)])

\* str(x) for a float x >= 0 with one decimal, given as its tenths
FloatToStr(v) == IntToStr(v \div 10) \o <<".">> \o IntToStr(v % 10)

\* s.split(".")[0]: the text before the first "."
RECURSIVE SplitDot0(_)
SplitDot0(s) ==
    IF Len(s) = 0 \/ s[1] = "." THEN <<>>
    ELSE <<s[1]>> \o SplitDot0(Tail(s))

\* f"{x}" of an optional str / float: None prints as "None"
NoneStr == <<"N", "o", "n", "e">>
FmtStr(opt) == IF opt = NONE THEN NoneStr ELSE opt[1]
FmtFloat(opt) == IF opt = NONE THEN NoneStr ELSE FloatToStr(opt[1])

\* The order of str values (sorted() compares code points; the characters used
\* here are lower-case letters and ".", and "." sorts before every letter).
Alphabet == <<".", "a", "b", "c", "l", "s">>
CharRank(c) == CHOOSE i \in 1..Len(Alphabet) : Alphabet[i] = c

RECURSIVE StrLess(_, _)
StrLess(a, b) ==
    IF Len(b) = 0 THEN FALSE
    ELSE IF Len(a) = 0 THEN TRUE
    ELSE IF a[1] # b[1] THEN CharRank(a[1]) < CharRank(b[1])
    ELSE StrLess(Tail(a), Tail(b))

\* sorted(S) of a set of str
RECURSIVE Sorted(_)
Sorted(S) ==
    IF S = {} THEN <<>>
    ELSE LET m == CHOOSE x \in S : \A y \in S \ {x} : StrLess(x, y)
         IN  <<m>> \o Sorted(S \ {m})

-----------------------------------------------------------------------------
(* Dicts of the options wizard *)

\* The keys of the options mapping (const.py names, imported at lines 24-35).
OptionKeys == {"entity_prefix", "include_domains", "include_entities",
               "exclude_domains", "exclude_entities", "filter", "subscribe_events"}

\* {} : the options of an entry that was never configured
EmptyOptions == [k \in OptionKeys |-> NONE]

\* A slip: the submission replaces the draft.
DictReplace(d, u) == u

\* d.update(u): the keys present in u replace those of d
DictUpdate(d, u) == [k \in DOMAIN d |-> IF u[k] # NONE THEN u[k] ELSE d[k]]

\* list[i] with Python's indexing: i in -len..len-1, negative counts from the end
IndexOk(list, i) == -Len(list) <= i /\ i < Len(list)
ListIndex(list, i) == IF i >= 0 THEN list[i + 1] ELSE list[Len(list) + i + 1]

-----------------------------------------------------------------------------
(* Pure helpers of config_flow.py *)

\* A slip: the display index is the list index itself, counted from 0.
filter_str_zero_based(index, filter) ==
    IntToStr(index) \o <<".", " ">> \o FmtStr(filter.entity_id)
        \o <<",", " ", "u", "n", "i", "t", ":", " ">> \o FmtStr(filter.unit_of_measurement)
        \o <<",", " ", "a", "b", "o", "v", "e", ":", " ">> \o FmtFloat(filter.above)
        \o <<",", " ", "b", "e", "l", "o", "w", ":", " ">> \o FmtFloat(filter.below)

\* f"{index+1}. {entity_id}, unit: {unit}, above: {above}, below: {below}"
filter_str(index, filter) ==
    IntToStr(index + 1) \o <<".", " ">> \o FmtStr(filter.entity_id)
        \o <<",", " ", "u", "n", "i", "t", ":", " ">> \o FmtStr(filter.unit_of_measurement)
        \o <<",", " ", "a", "b", "o", "v", "e", ":", " ">> \o FmtFloat(filter.above)
        \o <<",", " ", "b", "e", "l", "o", "w", ":", " ">> \o FmtFloat(filter.below)

\* A slip: the enumeration starts at 1, every display index is one too high.
filter_strings_from_one(flist) == [i \in 1..Len(flist) |-> filter_str(i, flist[i])]

\* [_filter_str(i, filter) for i, filter in enumerate(self.filters)]
filter_strings(flist) == [i \in 1..Len(flist) |-> filter_str(i - 1, flist[i])]

\* A slip: the indices are taken as they are displayed, one too high.
selected_indices_not_shifted(sel) ==
    [i \in 1..Len(sel) |-> StrToInt(SplitDot0(sel[i]))]

\* [int(filter.split(".")[0]) - 1 for filter in user_input.get(CONF_FILTER, [])]
selected_indices(sel) == [i \in 1..Len(sel) |-> StrToInt(SplitDot0(sel[i])) - 1]

\* The list comprehensions of the finalize branch raise ValueError (int) or
\* IndexError (self.filters[i]) unless this holds.
selection_ok(flist, sel) ==
    /\ \A i \in 1..Len(sel) : IsIntStr(SplitDot0(sel[i]))
    /\ \A i \in 1..Len(sel) : IndexOk(flist, selected_indices(sel)[i])

\* [self.filters[i] for i in selected_indices]
selected_filters(flist, sel) ==
    [i \in 1..Len(sel) |-> ListIndex(flist, selected_indices(sel)[i])]

\* A slip: the display string is made after the filter is appended.
new_filter_str_after_append(flist, filter) == filter_str(Len(flist) + 1, filter)

\* _filter_str(len(self.filters), new_filter): the display string of a filter
\* that is about to be appended to flist
new_filter_str(flist, filter) == filter_str(Len(flist), filter)

\* {conf: user_input.get(conf) for conf in FILTER_OPTIONS}
new_filter(user_input) ==
    [entity_id |-> user_input.entity_id,
     unit_of_measurement |-> user_input.unit_of_measurement,
     above |-> user_input.above,
     below |-> user_input.below]

\* A slip: the persisted value is the default even when it is empty.
default_as_persisted(opts, conf) == opts[conf]

\* self.config_entry.options.get(conf) or vol.UNDEFINED, for the list-valued keys
default(opts, conf) ==
    IF opts[conf] = NONE \/ opts[conf][1] = <<>> THEN NONE ELSE opts[conf]

\* A slip: only the remote's entities are offered.
domains_and_entities_remote_only(opts, remote) ==
    LET entities == Sorted(remote)
        domains == Sorted({SplitDot0(e) : e \in Range(entities)})
    IN  [domains |-> domains, entities |-> entities]

\* _domains_and_entities: the choices of the domain_entity_filters form
domains_and_entities(opts, remote) ==
    LET include_entities == Range(Get(opts.include_entities, <<>>))
        exclude_entities == Range(Get(opts.exclude_entities, <<>>))
        entities == Sorted(remote \cup include_entities \cup exclude_entities)
        domains == Sorted({SplitDot0(e) : e \in Range(entities)})
    IN  [domains |-> domains, entities |-> entities]

-----------------------------------------------------------------------------
(* What a step returns to the flow manager *)

\* The union of the fields of async_show_form and async_create_entry results.
NoResult ==
    [type |-> "none", step_id |-> "", title |-> "", data |-> NONE,
     suggested_value |-> NONE,
     options_include_domains |-> <<>>, options_include_entities |-> <<>>,
     options_exclude_domains |-> <<>>, options_exclude_entities |-> <<>>,
     default_include_domains |-> NONE, default_include_entities |-> NONE,
     default_exclude_domains |-> NONE, default_exclude_entities |-> NONE,
     strings |-> <<>>, selected |-> <<>>,
     event_options |-> {}, event_selected |-> NONE]

\* async_step_init(None): the init form, entity_prefix suggested from the entry
init_form(opts) ==
    [NoResult EXCEPT !.type = "form", !.step_id = "init",
                     !.suggested_value = opts.entity_prefix]

\* A slip: the domain fields offer the entities.
domain_entity_filters_form_entities_only(opts, remote) ==
    LET de == domains_and_entities(opts, remote)
    IN  [NoResult EXCEPT !.type = "form", !.step_id = "domain_entity_filters",
                         !.options_include_domains = de.entities,
                         !.options_include_entities = de.entities,
                         !.options_exclude_domains = de.entities,
                         !.options_exclude_entities = de.entities,
                         !.default_include_domains = default(opts, "include_domains"),
                         !.default_include_entities = default(opts, "include_entities"),
                         !.default_exclude_domains = default(opts, "exclude_domains"),
                         !.default_exclude_entities = default(opts, "exclude_entities")]

\* async_step_domain_entity_filters(None)
domain_entity_filters_form(opts, remote) ==
    LET de == domains_and_entities(opts, remote)
    IN  [NoResult EXCEPT !.type = "form", !.step_id = "domain_entity_filters",
                         !.options_include_domains = de.domains,
                         !.options_include_entities = de.entities,
                         !.options_exclude_domains = de.domains,
                         !.options_exclude_entities = de.entities,
                         !.default_include_domains = default(opts, "include_domains"),
                         !.default_include_entities = default(opts, "include_entities"),
                         !.default_exclude_domains = default(opts, "exclude_domains"),
                         !.default_exclude_entities = default(opts, "exclude_entities")]

\* The form async_step_general_filters ends with: the choices are the display
\* strings of self.filters, the default is `selected`.
general_filters_form(flist, selected) ==
    [NoResult EXCEPT !.type = "form", !.step_id = "general_filters",
                     !.strings = filter_strings(flist), !.selected = selected]

\* The form async_step_events ends with: the choices are self.events.
events_form(evset, selected) ==
    [NoResult EXCEPT !.type = "form", !.step_id = "events",
                     !.event_options = evset, !.event_selected = selected]

\* async_create_entry(title="", data=self.options)
create_entry_result(opts) ==
    [NoResult EXCEPT !.type = "create_entry", !.title = "", !.data = Some(opts)]

\* An exception left the step: the flow manager reports an error.
error_result == [NoResult EXCEPT !.type = "error"]

\* The step ids, in the order of the wizard
StepOrder == <<"init", "domain_entity_filters", "general_filters", "events">>
ActiveSteps == Range(StepOrder)

\* The steps submitted so far, s appended unless it is the last one already
Record(log, s) == IF Len(log) > 0 /\ log[Len(log)] = s THEN log ELSE Append(log, s)

-----------------------------------------------------------------------------
(* Inputs of the model *)

\* The wizard instances that may be open for the entry at the same time
Wizards == {1, 2}

\* Entity ids known to the remote or persisted in the options
EntityUniverse == {<<"s", ".", "a">>, <<"s", ".", "c">>, <<"l", ".", "b">>}

\* Event names a user types into add_new_event
EventNames == {"e1", "e2"}

\* Filters as the wizard builds them
FilterA ==
    [entity_id |-> Some(<<"s", ".", "a">>), unit_of_measurement |-> NONE,
     above |-> NONE, below |-> NONE]
FilterB ==
    [entity_id |-> Some(<<"l", ".", "b">>), unit_of_measurement |-> Some(<<"C">>),
     above |-> Some(15), below |-> Some(20)]

\* The list objects of the heap: the list the entry's options hold when the
\* model starts, the list a wizard creates when the entry has none
\* (options.get(CONF_FILTER, [])), and the list a wizard builds on finalize.
EntryRef == <<"entry", 0>>
OwnRef(w) == <<"own", w>>
DraftRef(w) == <<"draft", w>>
ListRefs == {EntryRef} \cup {OwnRef(w) : w \in Wizards} \cup {DraftRef(w) : w \in Wizards}

\* What the entry's options may hold when a wizard is opened: nothing (the
\* entry was never configured), what an earlier completion of the wizard wrote
\* with nothing selected, and what it wrote with every kind of option chosen.
\* `filters` is the content of the list the key filter refers to.
InitialEntries ==
    {[options |-> EmptyOptions, filters |-> <<>>],
     [options |-> [EmptyOptions EXCEPT !.filter = Some(EntryRef),
                                       !.subscribe_events = Some(<<>>)],
      filters |-> <<>>],
     [options |-> [EmptyOptions EXCEPT !.entity_prefix = Some("ha_"),
                                       !.include_entities = Some(<<<<"s", ".", "a">>>>),
                                       !.exclude_entities = Some(<<<<"l", ".", "b">>>>),
                                       !.filter = Some(EntryRef),
                                       !.subscribe_events = Some(<<"e1">>)],
      filters |-> <<FilterA, FilterB>>]}

\* Submissions of the init form: entity_prefix is optional
InitInputs == {[EmptyOptions EXCEPT !.entity_prefix = p] : p \in {NONE, Some("ha_")}}

\* A selection of at most one of the offered choices, or the field left out
OneOf(choices) == {NONE} \cup {Some(<<c>>) : c \in Range(choices)}

\* Submissions of the domain_entity_filters form, validated against its choices
DomainEntityInputs(form) ==
    {[EmptyOptions EXCEPT !.include_entities = ie, !.exclude_entities = ee,
                          !.include_domains = id] :
        ie \in OneOf(form.options_include_entities),
        ee \in OneOf(form.options_exclude_entities),
        id \in OneOf(form.options_include_domains)}
    \cup {[EmptyOptions EXCEPT !.exclude_domains = ed] :
            ed \in OneOf(form.options_exclude_domains)}

\* The selections the multi_select validator accepts: values of the choices,
\* in any order
FilterSelections(form) ==
    {NONE} \cup {Some(s) : s \in InjSeqs(Range(form.strings), Len(form.strings))}

\* Submissions of the general_filters form: finalize (no entity_id) and add
GeneralFiltersFinalizeInputs(form) ==
    {[filter |-> sel, entity_id |-> NONE, unit_of_measurement |-> NONE,
      above |-> NONE, below |-> NONE] : sel \in FilterSelections(form)}

GeneralFiltersAddInputs(form) ==
    {[filter |-> sel, entity_id |-> f.entity_id,
      unit_of_measurement |-> f.unit_of_measurement,
      above |-> f.above, below |-> f.below] :
        sel \in FilterSelections(form), f \in {FilterA, FilterB}}

\* Selections of the events form: the pre-selected default as it stands, or any
\* choice of the offered names
EventSelections(form) ==
    {NONE, form.event_selected}
        \cup {Some(s) : s \in InjSeqs(form.event_options, Cardinality(form.event_options))}

EventsFinalizeInputs(form) ==
    {[subscribe_events |-> sel, add_new_event |-> NONE] : sel \in EventSelections(form)}

EventsAddInputs(form) ==
    {[subscribe_events |-> sel, add_new_event |-> Some(e)] :
        sel \in EventSelections(form), e \in EventNames}

\* The submissions of a user who changes nothing the form pre-selects
KeepFilterSelection(form) == {Some(form.selected)}
KeepEventSelection(form) == {form.event_selected}

-----------------------------------------------------------------------------
(* The options wizard: OptionsFlowHandler *)

\* self.filters as a list, and the persisted filter list as a list
FilterList(w) == heap[filters[w][1]]
PersistedFilters == IF entryOptions.filter = NONE THEN <<>> ELSE heap[entryOptions.filter[1]]

\* async_get_options_flow, __init__, and the flow manager's first call
\* async_step_init(None), which shows the init form.
Start(w) ==
    /\ step[w] = "none"
    /\ step' = [step EXCEPT ![w] = "init"]
    /\ filters' = [filters EXCEPT ![w] = NONE]
    /\ events' = [events EXCEPT ![w] = NONE]
    /\ options' = [options EXCEPT ![w] = NONE]
    /\ result' = [result EXCEPT ![w] = init_form(entryOptions)]
    /\ UNCHANGED <<submitted, readded, entryOptions, heap, remoteEntities, writes,
                   uflow, entries>>

\* A slip: self.filters always starts as a new empty list.
initial_filters_fresh(w) == Some(OwnRef(w))

\* self.filters = self.config_entry.options.get(CONF_FILTER, []): the list
\* object the entry's options hold, or a new empty list of the instance's own
initial_filters(w) ==
    IF entryOptions.filter = NONE THEN Some(OwnRef(w)) ELSE entryOptions.filter

\* A slip: async_step_init calls async_step_general_filters, leaving out the
\* domain_entity_filters step.
async_step_init_skipping(w, user_input) ==
    /\ step[w] = "init"
    /\ options' = [options EXCEPT ![w] = Some(user_input)]
    /\ step' = [step EXCEPT ![w] = "general_filters"]
    /\ submitted' = [submitted EXCEPT ![w] = Record(@, "init")]
    /\ filters' = [filters EXCEPT ![w] = initial_filters(w)]
    /\ result' = [result EXCEPT
                    ![w] = general_filters_form(heap[initial_filters(w)[1]],
                                                filter_strings(heap[initial_filters(w)[1]]))]
    /\ UNCHANGED <<events, readded, entryOptions, heap, remoteEntities, writes,
                   uflow, entries>>

\* async_step_init(user_input): seeds the draft and shows the
\* domain_entity_filters form.
async_step_init(w, user_input) ==
    /\ step[w] = "init"
    /\ options' = [options EXCEPT ![w] = Some(user_input)]
    /\ step' = [step EXCEPT ![w] = "domain_entity_filters"]
    /\ submitted' = [submitted EXCEPT ![w] = Record(@, "init")]
    /\ result' = [result EXCEPT
                    ![w] = domain_entity_filters_form(entryOptions, remoteEntities)]
    /\ UNCHANGED <<filters, events, readded, entryOptions, heap, remoteEntities,
                   writes, uflow, entries>>

\* async_step_domain_entity_filters(user_input): merges the submission into the
\* draft, then async_step_general_filters(None): self.filters is taken from
\* the entry and every filter is pre-selected.
async_step_domain_entity_filters(w, user_input) ==
    /\ step[w] = "domain_entity_filters"
    /\ options' = [options EXCEPT ![w] = Some(DictUpdate(options[w][1], user_input))]
    /\ step' = [step EXCEPT ![w] = "general_filters"]
    /\ submitted' = [submitted EXCEPT ![w] = Record(@, "domain_entity_filters")]
    /\ filters' = [filters EXCEPT ![w] = initial_filters(w)]
    /\ heap' = heap
    /\ result' = [result EXCEPT
                    ![w] = general_filters_form(heap[initial_filters(w)[1]],
                                                filter_strings(heap[initial_filters(w)[1]]))]
    /\ UNCHANGED <<events, readded, entryOptions, remoteEntities, writes, uflow, entries>>

\* async_step_general_filters(user_input) without entity_id: the selected
\* filters are stored in the draft as a new list, then async_step_events(None)
\* seeds self.events from the entry and shows the events form.
general_filters_finalize(w, user_input) ==
    LET sel == Get(user_input.filter, <<>>)
    IN  /\ submitted' = [submitted EXCEPT ![w] = Record(@, "general_filters")]
        /\ IF selection_ok(FilterList(w), sel)
           THEN /\ heap' = [heap EXCEPT ![DraftRef(w)] = selected_filters(FilterList(w), sel)]
                /\ options' = [options EXCEPT
                                 ![w] = Some([@[1] EXCEPT !.filter = Some(DraftRef(w))])]
                /\ step' = [step EXCEPT ![w] = "events"]
                /\ events' = [events EXCEPT
                                ![w] = Some(Range(Get(entryOptions.subscribe_events, <<>>)))]
                /\ result' = [result EXCEPT
                                ![w] = events_form(
                                          Range(Get(entryOptions.subscribe_events, <<>>)),
                                          default(entryOptions, "subscribe_events"))]
           ELSE /\ step' = [step EXCEPT ![w] = "error"]
                /\ result' = [result EXCEPT ![w] = error_result]
                /\ UNCHANGED <<heap, options, events>>
        /\ UNCHANGED <<filters, readded, entryOptions, remoteEntities, writes,
                       uflow, entries>>

\* A slip: the choices are computed before the new filter is appended.
general_filters_add_stale_choices(w, user_input) ==
    LET selected == Get(user_input.filter, <<>>)
                        \o <<new_filter_str(FilterList(w), new_filter(user_input))>>
        appended == Append(FilterList(w), new_filter(user_input))
    IN  /\ Len(FilterList(w)) < MaxFilters
        /\ submitted' = [submitted EXCEPT ![w] = Record(@, "general_filters")]
        /\ heap' = [heap EXCEPT ![filters[w][1]] = appended]
        /\ result' = [result EXCEPT ![w] = general_filters_form(FilterList(w), selected)]
        /\ UNCHANGED <<step, filters, events, options, readded, entryOptions,
                       remoteEntities, writes, uflow, entries>>

\* async_step_general_filters(user_input) with entity_id: the new filter is
\* appended to self.filters in place, its display string to the selection, and
\* the same form is shown again.
general_filters_add(w, user_input) ==
    LET selected == Get(user_input.filter, <<>>)
                        \o <<new_filter_str(FilterList(w), new_filter(user_input))>>
        appended == Append(FilterList(w), new_filter(user_input))
    IN  /\ Len(FilterList(w)) < MaxFilters
        /\ submitted' = [submitted EXCEPT ![w] = Record(@, "general_filters")]
        /\ heap' = [heap EXCEPT ![filters[w][1]] = appended]
        /\ result' = [result EXCEPT ![w] = general_filters_form(appended, selected)]
        /\ UNCHANGED <<step, filters, events, options, readded, entryOptions,
                       remoteEntities, writes, uflow, entries>>

async_step_general_filters(w, user_input) ==
    /\ step[w] = "general_filters"
    /\ IF user_input.entity_id = NONE
       THEN general_filters_finalize(w, user_input)
       ELSE general_filters_add(w, user_input)

\* A slip: the finalize branch stores the selection but does not return the
\* created entry; the events form is shown again.
events_finalize_not_returning(w, user_input) ==
    LET data == [options[w][1] EXCEPT
                    !.subscribe_events = Some(Get(user_input.subscribe_events, <<>>))]
    IN  /\ options' = [options EXCEPT ![w] = Some(data)]
        /\ result' = [result EXCEPT
                        ![w] = events_form(events[w][1], user_input.subscribe_events)]
        /\ UNCHANGED <<step, filters, events, entryOptions, writes, heap, readded,
                       remoteEntities, uflow, entries>>

\* async_step_events(user_input) without add_new_event: the selection is stored
\* in the draft and the draft is handed to async_create_entry; the entry
\* store replaces the entry's options by it, and the flow manager drops the
\* finished instance (and with it the list only the instance referred to).
events_finalize(w, user_input) ==
    LET data == [options[w][1] EXCEPT
                    !.subscribe_events = Some(Get(user_input.subscribe_events, <<>>))]
    IN  /\ result' = [result EXCEPT ![w] = create_entry_result(data)]
        /\ step' = [step EXCEPT ![w] = "done"]
        /\ entryOptions' = data
        /\ writes' = writes + 1
        /\ options' = [options EXCEPT ![w] = NONE]
        /\ filters' = [filters EXCEPT ![w] = NONE]
        /\ events' = [events EXCEPT ![w] = NONE]
        /\ heap' = [heap EXCEPT ![OwnRef(w)] = <<>>]
        /\ UNCHANGED <<readded, remoteEntities, uflow, entries>>

\* A slip: the new name replaces the event set.
events_add_replacing(w, user_input) ==
    LET selected == Append(Get(user_input.subscribe_events, <<>>),
                           user_input.add_new_event[1])
        evset == {user_input.add_new_event[1]}
    IN  /\ Len(selected) <= MaxSelected
        /\ events' = [events EXCEPT ![w] = Some(evset)]
        /\ result' = [result EXCEPT ![w] = events_form(evset, Some(selected))]
        /\ readded' = [readded EXCEPT
                          ![w] = IF user_input.add_new_event[1] \in events[w][1]
                                 THEN @ \cup {user_input.add_new_event[1]} ELSE @]
        /\ UNCHANGED <<step, filters, options, entryOptions, heap, remoteEntities,
                       writes, uflow, entries>>

\* async_step_events(user_input) with add_new_event: the name joins self.events
\* and the selection, and the same form is shown again.
events_add(w, user_input) ==
    LET selected == Append(Get(user_input.subscribe_events, <<>>),
                           user_input.add_new_event[1])
        evset == events[w][1] \cup {user_input.add_new_event[1]}
    IN  /\ Len(selected) <= MaxSelected
        /\ events' = [events EXCEPT ![w] = Some(evset)]
        /\ result' = [result EXCEPT ![w] = events_form(evset, Some(selected))]
        /\ readded' = [readded EXCEPT
                          ![w] = IF user_input.add_new_event[1] \in events[w][1]
                                 THEN @ \cup {user_input.add_new_event[1]} ELSE @]
        /\ UNCHANGED <<step, filters, options, entryOptions, heap, remoteEntities,
                       writes, uflow, entries>>

async_step_events(w, user_input) ==
    /\ step[w] = "events"
    /\ submitted' = [submitted EXCEPT ![w] = Record(@, "events")]
    /\ IF user_input.add_new_event = NONE
       THEN events_finalize(w, user_input)
       ELSE events_add(w, user_input)

\* The user closes the dialog: the flow manager drops the instance, and with
\* it the lists only the instance referred to.
Abandon(w) ==
    /\ step[w] \in ActiveSteps
    /\ step' = [step EXCEPT ![w] = "abandoned"]
    /\ filters' = [filters EXCEPT ![w] = NONE]
    /\ events' = [events EXCEPT ![w] = NONE]
    /\ options' = [options EXCEPT ![w] = NONE]
    /\ result' = [result EXCEPT ![w] = NoResult]
    /\ heap' = [heap EXCEPT ![OwnRef(w)] = <<>>, ![DraftRef(w)] = <<>>]
    /\ UNCHANGED <<submitted, readded, entryOptions, remoteEntities, writes, uflow, entries>>

\* The remote instance gains or loses entities.
RemoteChange ==
    /\ remoteEntities' \in (SUBSET EntityUniverse) \ {remoteEntities}
    /\ UNCHANGED <<step, filters, events, options, result, submitted, readded, entryOptions,
                   heap, writes, uflow, entries>>

\* No wizard is open; the entry holds one of InitialEntries.
WizardInit ==
    /\ step = [w \in Wizards |-> "none"]
    /\ filters = [w \in Wizards |-> NONE]
    /\ events = [w \in Wizards |-> NONE]
    /\ options = [w \in Wizards |-> NONE]
    /\ result = [w \in Wizards |-> NoResult]
    /\ submitted = [w \in Wizards |-> <<>>]
    /\ readded = [w \in Wizards |-> {}]
    /\ \E e \in InitialEntries :
          /\ entryOptions = e.options
          /\ heap = [r \in ListRefs |-> IF r = EntryRef THEN e.filters ELSE <<>>]
    /\ writes = 0


-----------------------------------------------------------------------------
(* The connection setup flow: ConfigFlow *)

\* The setup flows that may be open at the same time
Flows == {1, 2}

\* A slip: TLS is off unless asked for.
DATA_SCHEMA_insecure ==
    [host |-> [required |-> TRUE, default |-> NONE],
     port |-> [required |-> FALSE, default |-> Some(8123)],
     access_token |-> [required |-> TRUE, default |-> NONE],
     secure |-> [required |-> FALSE, default |-> Some(FALSE)],
     verify_ssl |-> [required |-> FALSE, default |-> Some(TRUE)]]

\* DATA_SCHEMA: for each field, whether it is required and its default
DATA_SCHEMA ==
    [host |-> [required |-> TRUE, default |-> NONE],
     port |-> [required |-> FALSE, default |-> Some(8123)],
     access_token |-> [required |-> TRUE, default |-> NONE],
     secure |-> [required |-> FALSE, default |-> Some(TRUE)],
     verify_ssl |-> [required |-> FALSE, default |-> Some(TRUE)]]

\* Submissions of the user form (validated by DATA_SCHEMA)
UserInputs ==
    {[host |-> "h1", port |-> 8123, access_token |-> "tok1", secure |-> TRUE,
      verify_ssl |-> TRUE],
     [host |-> "h2", port |-> 8124, access_token |-> "tok2", secure |-> FALSE,
      verify_ssl |-> FALSE]}

NoInput ==
    [host |-> "", port |-> 0, access_token |-> "", secure |-> FALSE, verify_ssl |-> FALSE]

\* The exceptions async_get_discovery_info may raise, by class: the three of
\* rest_api, OSError, and any other Exception.
ExceptionClasses == {"ApiProblem", "CannotConnect", "InvalidAuth", "OSError", "Exception"}

\* What the discovery call does: it returns the remote's info or raises
NoOutcome == [kind |-> "none", exc |-> "", location_name |-> "", uuid |-> ""]
DiscoveryOutcomes ==
    {[NoOutcome EXCEPT !.kind = "info", !.location_name = n, !.uuid = u] :
        n \in {"Home", "Lab"}, u \in {"u1", "u2"}}
    \cup {[NoOutcome EXCEPT !.kind = "raise", !.exc = x] : x \in ExceptionClasses}

\* `except cls` catches an exception of class cls or of a subclass; the classes
\* above have no subclass relation but to Exception.
Catches(cls, exc) == exc = cls \/ cls = "Exception"

\* validate_input: an OSError of the discovery call is raised as CannotConnect,
\* other exceptions pass; otherwise title and uuid are taken from the info.
validate_input(outcome) ==
    IF outcome.kind = "raise"
    THEN [raised |-> IF Catches("OSError", outcome.exc) THEN "CannotConnect" ELSE outcome.exc,
          title |-> "", uuid |-> ""]
    ELSE [raised |-> "", title |-> outcome.location_name, uuid |-> outcome.uuid]

\* A slip: the CannotConnect clause comes first and catches too much.
user_error_connect_first(exc) ==
    IF Catches("CannotConnect", exc) \/ Catches("OSError", exc) \/ Catches("ApiProblem", exc)
    THEN "cannot_connect"
    ELSE IF Catches("InvalidAuth", exc) THEN "invalid_auth"
    ELSE "unknown"

\* The except clauses of async_step_user, in order: the first that catches
user_error(exc) ==
    IF Catches("ApiProblem", exc) THEN "api_problem"
    ELSE IF Catches("CannotConnect", exc) THEN "cannot_connect"
    ELSE IF Catches("InvalidAuth", exc) THEN "invalid_auth"
    ELSE "unknown"

NoUserResult ==
    [type |-> "none", step_id |-> "", errors |-> {}, data_schema |-> NONE,
     title |-> "", data |-> NONE, reason |-> ""]

\* async_show_form(step_id="user", data_schema=DATA_SCHEMA, errors=errors);
\* errors is a dict, here the set of its items
user_form(errors) ==
    [NoUserResult EXCEPT !.type = "form", !.step_id = "user", !.errors = errors,
                         !.data_schema = Some(DATA_SCHEMA)]

NewFlow ==
    [pc |-> "new", attempts |-> 0, input |-> NoInput, outcome |-> NoOutcome,
     unique_id |-> NONE, result |-> NoUserResult]

\* A slip: the flow never asks whether the unique id is configured.
unique_id_never_configured(uuid) == FALSE

\* _abort_if_unique_id_configured: an entry with this unique id is registered
unique_id_configured(uuid) == \E i \in 1..Len(entries) : entries[i].unique_id = uuid

\* async_step_user(None): the empty user form.
UserStart(f) ==
    /\ uflow[f].pc = "new"
    /\ uflow' = [uflow EXCEPT ![f].pc = "form", ![f].result = user_form({})]
    /\ UNCHANGED <<entries, step, filters, events, options, result, submitted, readded,
                   entryOptions, heap, remoteEntities, writes>>

\* async_step_user(user_input) up to the await of the discovery call.
UserSubmit(f, user_input) ==
    /\ uflow[f].pc = "form"
    /\ uflow[f].attempts < MaxAttempts
    /\ uflow' = [uflow EXCEPT ![f].pc = "validating", ![f].input = user_input,
                              ![f].attempts = @ + 1, ![f].outcome = NoOutcome]
    /\ UNCHANGED <<entries, step, filters, events, options, result, submitted, readded,
                   entryOptions, heap, remoteEntities, writes>>

\* async_step_user(user_input) from the return of the discovery call: an
\* exception is mapped to errors["base"] and the form is shown again;
\* otherwise the unique id is set, the flow aborts if it is configured, and
\* the entry is created.
UserResume(f, outcome) ==
    LET info == validate_input(outcome)
    IN  /\ uflow[f].pc = "validating"
        /\ IF info.raised # ""
           THEN /\ uflow' = [uflow EXCEPT
                               ![f].pc = "form", ![f].outcome = outcome,
                               ![f].result = user_form({<<"base", user_error(info.raised)>>})]
                /\ entries' = entries
           ELSE IF unique_id_configured(info.uuid)
           THEN /\ uflow' = [uflow EXCEPT
                               ![f].pc = "done", ![f].outcome = outcome,
                               ![f].unique_id = Some(info.uuid),
                               ![f].result = [NoUserResult EXCEPT
                                                !.type = "abort",
                                                !.reason = "already_configured"]]
                /\ entries' = entries
           ELSE /\ uflow' = [uflow EXCEPT
                               ![f].pc = "done", ![f].outcome = outcome,
                               ![f].unique_id = Some(info.uuid),
                               ![f].result = [NoUserResult EXCEPT
                                                !.type = "create_entry",
                                                !.title = info.title,
                                                !.data = Some(uflow[f].input)]]
                /\ entries' = Append(entries,
                                     [unique_id |-> info.uuid, title |-> info.title,
                                      data |-> uflow[f].input])
        /\ UNCHANGED <<step, filters, events, options, result, submitted, readded,
                       entryOptions, heap, remoteEntities, writes>>

\* No setup flow has run and no entry is registered.
SetupIdle ==
    /\ uflow = [f \in Flows |-> NewFlow]
    /\ entries = <<>>

-----------------------------------------------------------------------------
(* Spec: one wizard instance, every submission of the two looping steps *)

Init ==
    /\ WizardInit
    /\ remoteEntities = EntityUniverse
    /\ SetupIdle

SubmitInit ==
    \E ui \in InitInputs : async_step_init(1, ui)
SubmitDomainEntityFilters ==
    \E ui \in {EmptyOptions} : async_step_domain_entity_filters(1, ui)
SubmitFinalizeFilters ==
    \E ui \in GeneralFiltersFinalizeInputs(result[1]) : async_step_general_filters(1, ui)
SubmitAddFilter ==
    \E ui \in GeneralFiltersAddInputs(result[1]) : async_step_general_filters(1, ui)
SubmitFinalizeEvents ==
    \E ui \in EventsFinalizeInputs(result[1]) : async_step_events(1, ui)
SubmitAddEvent ==
    \E ui \in EventsAddInputs(result[1]) : async_step_events(1, ui)

Next ==
    \/ Start(1)
    \/ SubmitInit
    \/ SubmitDomainEntityFilters
    \/ SubmitFinalizeFilters
    \/ SubmitAddFilter
    \/ SubmitFinalizeEvents
    \/ SubmitAddEvent
    \/ Abandon(1)

Spec == Init /\ [][Next]_vars

-----------------------------------------------------------------------------
(* DomainSpec: one wizard instance, every submission of the first two steps, *)
(* while the remote's entities change                                        *)

DomainInit ==
    /\ WizardInit
    /\ remoteEntities \in SUBSET EntityUniverse
    /\ SetupIdle

SubmitDomainEntityChoice ==
    \E ui \in DomainEntityInputs(result[1]) : async_step_domain_entity_filters(1, ui)
KeepFilters ==
    \E ui \in GeneralFiltersFinalizeInputs(result[1]) :
        /\ ui.filter \in KeepFilterSelection(result[1])
        /\ async_step_general_filters(1, ui)
KeepEvents ==
    \E ui \in EventsFinalizeInputs(result[1]) :
        /\ ui.subscribe_events \in KeepEventSelection(result[1])
        /\ async_step_events(1, ui)

DomainNext ==
    \/ Start(1)
    \/ SubmitInit
    \/ SubmitDomainEntityChoice
    \/ KeepFilters
    \/ KeepEvents
    \/ Abandon(1)
    \/ RemoteChange

DomainSpec == DomainInit /\ [][DomainNext]_vars

-----------------------------------------------------------------------------
(* ConcSpec: two wizard instances open for the same entry, their steps       *)
(* interleaved; each user keeps the pre-selected values                      *)

ConcInit(w) ==
    \E ui \in {EmptyOptions} : async_step_init(w, ui)
ConcDomainEntityFilters(w) ==
    \E ui \in {EmptyOptions} : async_step_domain_entity_filters(w, ui)
ConcFinalizeFilters(w) ==
    \E ui \in GeneralFiltersFinalizeInputs(result[w]) :
        /\ ui.filter \in KeepFilterSelection(result[w])
        /\ async_step_general_filters(w, ui)
ConcAddFilter(w) ==
    \E ui \in GeneralFiltersAddInputs(result[w]) :
        /\ ui.filter \in KeepFilterSelection(result[w])
        /\ async_step_general_filters(w, ui)
ConcFinalizeEvents(w) ==
    \E ui \in EventsFinalizeInputs(result[w]) :
        /\ ui.subscribe_events \in KeepEventSelection(result[w])
        /\ async_step_events(w, ui)
ConcAddEvent(w) ==
    \E ui \in EventsAddInputs(result[w]) :
        /\ ui.subscribe_events \in KeepEventSelection(result[w])
        /\ async_step_events(w, ui)

ConcNext ==
    \/ \E w \in Wizards : Start(w)
    \/ \E w \in Wizards : ConcInit(w)
    \/ \E w \in Wizards : ConcDomainEntityFilters(w)
    \/ \E w \in Wizards : ConcFinalizeFilters(w)
    \/ \E w \in Wizards : ConcAddFilter(w)
    \/ \E w \in Wizards : ConcFinalizeEvents(w)
    \/ \E w \in Wizards : ConcAddEvent(w)
    \/ \E w \in Wizards : Abandon(w)

ConcSpec == Init /\ [][ConcNext]_vars

-----------------------------------------------------------------------------
(* LiveSpec: one wizard instance whose user keeps the pre-selected values,   *)
(* never closes the dialog, and submits every form that is shown; on the two *)
(* looping steps the user does not add forever: the finalize submission,     *)
(* which stays possible after every add, is made at last                     *)

LiveNext ==
    \/ Start(1)
    \/ ConcInit(1)
    \/ ConcDomainEntityFilters(1)
    \/ ConcFinalizeFilters(1)
    \/ ConcAddFilter(1)
    \/ ConcFinalizeEvents(1)
    \/ ConcAddEvent(1)

LiveSpec ==
    /\ Init
    /\ [][LiveNext]_vars
    /\ WF_vars(Start(1))
    /\ WF_vars(ConcInit(1))
    /\ WF_vars(ConcDomainEntityFilters(1))
    /\ WF_vars(ConcFinalizeFilters(1))
    /\ WF_vars(ConcFinalizeEvents(1))

-----------------------------------------------------------------------------
(* FilterSpec: one wizard instance up to the first showing of the events     *)
(* form, with every add and every finalize submission of general_filters     *)

FilterNext ==
    \/ Start(1)
    \/ ConcInit(1)
    \/ ConcDomainEntityFilters(1)
    \/ SubmitFinalizeFilters
    \/ SubmitAddFilter

FilterSpec == Init /\ [][FilterNext]_vars

-----------------------------------------------------------------------------
(* SetupSpec: two setup flows, their discovery calls interleaved *)

SetupInit ==
    /\ WizardInit
    /\ entryOptions = EmptyOptions
    /\ remoteEntities = EntityUniverse
    /\ SetupIdle

SetupNext ==
    \/ \E f \in Flows : UserStart(f)
    \/ \E f \in Flows : \E ui \in UserInputs : UserSubmit(f, ui)
    \/ \E f \in Flows : \E o \in DiscoveryOutcomes : UserResume(f, o)

SetupSpec == SetupInit /\ [][SetupNext]_vars

-----------------------------------------------------------------------------
(* Properties *)

IsPrefix(p, s) == Len(p) <= Len(s) /\ SubSeq(s, 1, Len(p)) = p
Count(e, seq) == Cardinality({i \in 1..Len(seq) : seq[i] = e})

\* The flow manager called a step of instance w, other than dropping it
Acted(w) == step'[w] # step[w] \/ result'[w] # result[w]
SubmittedTo(w, s) == step[w] = s /\ Acted(w) /\ step'[w] # "abandoned"

\* C1: the steps are visited in the order init -> domain_entity_filters ->
\* general_filters -> events. A submission to init leads to the
\* domain_entity_filters form, one to domain_entity_filters to the
\* general_filters form, one to general_filters to the same form or the
\* events form, one to events to the same form or to completion; and the
\* entry's options are replaced only by a completing submission of events,
\* after every step has been submitted, by exactly the data of create_entry.
C1_StepOrder ==
    [][\A w \in Wizards :
        /\ SubmittedTo(w, "init") =>
              /\ step'[w] = "domain_entity_filters"
              /\ result'[w].type = "form"
              /\ result'[w].step_id = "domain_entity_filters"
        /\ SubmittedTo(w, "domain_entity_filters") =>
              /\ step'[w] = "general_filters"
              /\ result'[w].type = "form"
              /\ result'[w].step_id = "general_filters"
        /\ SubmittedTo(w, "general_filters") =>
              /\ step'[w] \in {"general_filters", "events"}
              /\ result'[w].type = "form"
              /\ result'[w].step_id = step'[w]
        /\ SubmittedTo(w, "events") =>
              \/ step'[w] = "events" /\ result'[w].type = "form"
                                     /\ result'[w].step_id = "events"
              \/ step'[w] = "done" /\ result'[w].type = "create_entry"
        /\ (step'[w] = "done" /\ step[w] # "done") =>
              /\ step[w] = "events"
              /\ submitted'[w] = StepOrder
              /\ writes' = writes + 1
              /\ entryOptions' = result'[w].data[1]
        /\ (writes' # writes \/ entryOptions' # entryOptions) =>
              \E v \in Wizards : step[v] = "events" /\ step'[v] = "done"
      ]_vars

\* A wizard has completed after its four steps.
C1_Witness ==
    /\ step[1] = "done"
    /\ result[1].type = "create_entry"
    /\ submitted[1] = StepOrder
    /\ writes = 1

\* C2: a general_filters submission without entity_id stores in the draft,
\* for each selected display string in the order selected, the filter at the
\* position its leading index names (1-based), whatever follows the index,
\* and the wizard shows the events form.
C2_FinalizeMapsIndices ==
    [][\A w \in Wizards :
        (step[w] = "general_filters" /\ step'[w] # "general_filters") =>
        \A ui \in GeneralFiltersFinalizeInputs(result[w]) :
        async_step_general_filters(w, ui) =>
            LET sel == Get(ui.filter, <<>>)
                stored == heap'[options'[w][1].filter[1]]
            IN  /\ step'[w] = "events"
                /\ result'[w].type = "form" /\ result'[w].step_id = "events"
                /\ Len(stored) = Len(sel)
                /\ \A i \in 1..Len(sel) :
                      \E k \in 1..Len(FilterList(w)) :
                          /\ IsPrefix(IntToStr(k) \o <<".">>, sel[i])
                          /\ stored[i] = FilterList(w)[k]
      ]_vars

\* Of three filters the second and the third were selected and stored.
C2_Witness ==
    /\ step[1] = "events"
    /\ FilterList(1) = <<FilterA, FilterA, FilterB>>
    /\ heap[options[1][1].filter[1]] = <<FilterA, FilterB>>

\* C3: a general_filters submission with entity_id keeps the wizard on
\* general_filters and leaves the draft as it is; self.filters grows by the
\* one record built from the submitted fields, at the end, the earlier records
\* keeping their places; the form shown pre-selects the submitted selection
\* followed by the choice that stands for the new filter.
C3_AddFilterStays ==
    [][\A w \in Wizards : \A ui \in GeneralFiltersAddInputs(result[w]) :
        async_step_general_filters(w, ui) =>
            LET old == FilterList(w)
                new == heap'[filters'[w][1]]
            IN  /\ step'[w] = "general_filters"
                /\ result'[w].type = "form"
                /\ result'[w].step_id = "general_filters"
                /\ options'[w] = options[w]
                /\ filters'[w] = filters[w]
                /\ Len(new) = Len(old) + 1
                /\ SubSeq(new, 1, Len(old)) = old
                /\ new[Len(new)].entity_id = ui.entity_id
                /\ new[Len(new)].unit_of_measurement = ui.unit_of_measurement
                /\ new[Len(new)].above = ui.above
                /\ new[Len(new)].below = ui.below
                /\ Len(result'[w].strings) = Len(new)
                /\ result'[w].selected
                      = Get(ui.filter, <<>>) \o <<result'[w].strings[Len(new)]>>
                /\ IsPrefix(IntToStr(Len(new)) \o <<".", " ">> \o ui.entity_id[1],
                            result'[w].strings[Len(new)])
      ]_vars

\* Two filters were added one after the other to an entry that had none, and
\* both are pre-selected.
C3_Witness ==
    /\ step[1] = "general_filters"
    /\ entryOptions.filter = NONE
    /\ FilterList(1) = <<FilterA, FilterB>>
    /\ result[1].selected = result[1].strings

\* C4: when the user completes the events step with the pre-selected values,
\* an event name that was submitted as add_new_event while it was in the
\* event set already (added before, or persisted), and that is pre-selected,
\* is written to the entry's subscribed events exactly once.
C4_ReaddedEventOnce ==
    [][\A w \in Wizards : \A ui \in EventsFinalizeInputs(result[w]) :
        (/\ ui.subscribe_events = result[w].event_selected
         /\ async_step_events(w, ui)) =>
            \A e \in readded[w] :
                e \in Range(Get(result[w].event_selected, <<>>)) =>
                    Count(e, Get(entryOptions'.subscribe_events, <<>>)) = 1
      ]_vars

\* The error code each exception class of the discovery call stands for
ExpectedError(exc) ==
    CASE exc \in {"CannotConnect", "OSError"} -> "cannot_connect"
      [] exc = "ApiProblem" -> "api_problem"
      [] exc = "InvalidAuth" -> "invalid_auth"
      [] OTHER -> "unknown"

\* C5: when the discovery call raises, the user form is shown again with
\* exactly one error, under "base", which is the code of the exception's
\* class; no unique id is set and no entry is created.
C5_ErrorCodes ==
    [][\A f \in Flows : \A o \in DiscoveryOutcomes :
        (o.kind = "raise" /\ UserResume(f, o)) =>
            /\ uflow'[f].pc = "form"
            /\ uflow'[f].result.type = "form"
            /\ uflow'[f].result.step_id = "user"
            /\ uflow'[f].result.errors = {<<"base", ExpectedError(o.exc)>>}
            /\ uflow'[f].unique_id = NONE
            /\ entries' = entries
      ]_vars

\* One flow shows cannot_connect after an OSError, the other unknown after an
\* exception of no mapped class.
C5_Witness ==
    /\ uflow[1].outcome.exc = "OSError"
    /\ uflow[1].result.errors = {<<"base", "cannot_connect">>}
    /\ uflow[2].outcome.exc = "Exception"
    /\ uflow[2].result.errors = {<<"base", "unknown">>}

\* C6: a flow ends only after a successful discovery, with the remote's uuid
\* as its unique id; it ends by creating an entry with that unique id, the
\* location name as title and the submitted input as data, or, when an entry
\* with the uuid is registered already, by aborting without an entry; no two
\* registered entries have the same unique id.
C6_OneEntryPerUuid ==
    /\ \A i, j \in 1..Len(entries) :
          i # j => entries[i].unique_id # entries[j].unique_id
    /\ Len(entries) = Cardinality({f \in Flows : uflow[f].result.type = "create_entry"})
    /\ \A f \in Flows :
          /\ uflow[f].outcome.kind = "info" => uflow[f].pc = "done"
          /\ uflow[f].pc = "done" =>
                /\ uflow[f].outcome.kind = "info"
                /\ uflow[f].unique_id = Some(uflow[f].outcome.uuid)
                /\ uflow[f].result.type \in {"create_entry", "abort"}
                /\ \E i \in 1..Len(entries) :
                      entries[i].unique_id = uflow[f].outcome.uuid
                /\ uflow[f].result.type = "create_entry" =>
                      /\ uflow[f].result.title = uflow[f].outcome.location_name
                      /\ uflow[f].result.data = Some(uflow[f].input)
                      /\ \E i \in 1..Len(entries) :
                            entries[i] = [unique_id |-> uflow[f].outcome.uuid,
                                          title |-> uflow[f].outcome.location_name,
                                          data |-> uflow[f].input]

\* The second attempt for a uuid aborted; the entry of the first is the only one.
C6_Witness ==
    /\ uflow[1].result.type = "create_entry"
    /\ uflow[2].result.type = "abort"
    /\ uflow[2].outcome.uuid = uflow[1].outcome.uuid
    /\ Len(entries) = 1

\* One wizard's add submission (the step stays the same)
AddSubmission(w) ==
    /\ step[w] \in {"general_filters", "events"}
    /\ step'[w] = step[w]
    /\ result'[w] # result[w]

\* C7: an add submission of one wizard instance changes nothing of another
\* instance: its filters list, its events set, its draft and its form.
C7_NoSharedState ==
    [][\A w, u \in Wizards :
        (w # u /\ AddSubmission(w)) =>
            /\ filters'[u] = filters[u]
            /\ filters[u] # NONE => heap'[filters[u][1]] = heap[filters[u][1]]
            /\ events'[u] = events[u]
            /\ options'[u] = options[u]
            /\ result'[u] = result[u]
      ]_vars

\* The entry's options with the content of the filter list they refer to
PersistedView == [options |-> entryOptions, filters |-> PersistedFilters]

\* C8: no step of the wizard other than the completion changes the entry's
\* persisted options, the persisted filter list included.
C8_PersistedUntouched ==
    [][writes' = writes => PersistedView' = PersistedView]_vars

SchemaFields == {"host", "port", "access_token", "secure", "verify_ssl"}

\* C9 as claimed: after a failure the user form is shown with the submitted
\* values in its fields.
C9_FormKeepsInput ==
    [][\A f \in Flows : \A o \in DiscoveryOutcomes :
        (o.kind = "raise" /\ UserResume(f, o)) =>
            /\ uflow'[f].result.type = "form"
            /\ uflow'[f].result.step_id = "user"
            /\ \A k \in SchemaFields :
                  uflow'[f].result.data_schema[1][k].default = Some(uflow[f].input[k])
      ]_vars

\* C9 as amended: after a failure the user form is shown with the error and
\* with the defaults of DATA_SCHEMA, whatever was submitted: none for host and
\* access_token, 8123 for port, true for secure and verify_ssl.
C9_FormShowsSchemaDefaults ==
    [][\A f \in Flows : \A o \in DiscoveryOutcomes :
        (o.kind = "raise" /\ UserResume(f, o)) =>
            /\ uflow'[f].result.type = "form"
            /\ uflow'[f].result.step_id = "user"
            /\ Cardinality(uflow'[f].result.errors) = 1
            /\ uflow'[f].result.data_schema[1].host.default = NONE
            /\ uflow'[f].result.data_schema[1].access_token.default = NONE
            /\ uflow'[f].result.data_schema[1].port.default = Some(8123)
            /\ uflow'[f].result.data_schema[1].secure.default = Some(TRUE)
            /\ uflow'[f].result.data_schema[1].verify_ssl.default = Some(TRUE)
      ]_vars

\* A submission that differs from every default failed and the form is shown.
C9_Witness ==
    /\ uflow[1].pc = "form"
    /\ uflow[1].outcome.kind = "raise"
    /\ uflow[1].result.errors # {}
    /\ uflow[1].input.port = 8124
    /\ uflow[1].input.secure = FALSE

\* C10: the entity choices of the domain_entity_filters form, in the
\* include_entities and in the exclude_entities field, are the remote's
\* entities together with the persisted include_entities and exclude_entities.
C10_EntityChoices ==
    [][\A w \in Wizards :
        (step[w] = "init" /\ step'[w] = "domain_entity_filters") =>
            LET expected ==
                    remoteEntities
                        \cup Range(Get(entryOptions.include_entities, <<>>))
                        \cup Range(Get(entryOptions.exclude_entities, <<>>))
            IN  /\ Range(result'[w].options_include_entities) = expected
                /\ Range(result'[w].options_exclude_entities) = expected
      ]_vars

\* The form offers the persisted entities while the remote has none.
C10_Witness ==
    /\ step[1] = "domain_entity_filters"
    /\ remoteEntities = {}
    /\ entryOptions.include_entities = Some(<<<<"s", ".", "a">>>>)
    /\ entryOptions.exclude_entities = Some(<<<<"l", ".", "b">>>>)
    /\ Range(result[1].options_include_entities) = {<<"s", ".", "a">>, <<"l", ".", "b">>}
    /\ Range(result[1].options_exclude_entities) = {<<"s", ".", "a">>, <<"l", ".", "b">>}

\* C11: in every rendering of the general_filters form the i-th choice string
\* starts with "<i>." (i counted from 1), is the display string of the i-th
\* filter of the list, and its leading index parses back to that position;
\* from one rendering to the next of a session the filter list and the choice
\* strings only grow at the end, so no filter changes its index.
C11_IndexStable ==
    [][\A w \in Wizards :
        step'[w] = "general_filters" =>
            LET fl == heap'[filters'[w][1]]
                strs == result'[w].strings
            IN  /\ Len(strs) = Len(fl)
                /\ \A i \in 1..Len(strs) :
                      /\ IsPrefix(IntToStr(i) \o <<".">>, strs[i])
                      /\ strs[i] = filter_str(i - 1, fl[i])
                      /\ IsIntStr(SplitDot0(strs[i]))
                      /\ StrToInt(SplitDot0(strs[i])) - 1 = i - 1
                /\ step[w] = "general_filters" =>
                      /\ IsPrefix(FilterList(w), fl)
                      /\ IsPrefix(result[w].strings, strs)
      ]_vars

\* Two persisted filters and one added in the session are offered as 1., 2., 3.
C11_Witness ==
    /\ step[1] = "general_filters"
    /\ FilterList(1) = <<FilterA, FilterB, FilterA>>
    /\ Len(result[1].strings) = 3
    /\ IsPrefix(<<"3", ".">>, result[1].strings[3])

\* C12: the draft is the init submission, overlaid key by key with the
\* domain_entity_filters submission, then given the key filter by the
\* general_filters finalize; the completion writes, with an empty title,
\* exactly that draft with subscribe_events set to the list selected in the
\* final events submission (the empty list when none was submitted). No value
\* of the previously persisted options enters the written options.
C12_CompletionData ==
    [][\A w \in Wizards :
        /\ \A ui \in InitInputs :
              async_step_init(w, ui) => options'[w] = Some(ui)
        /\ \A ui \in DomainEntityInputs(result[w]) :
              async_step_domain_entity_filters(w, ui) =>
                  \A k \in OptionKeys :
                      options'[w][1][k] = IF ui[k] # NONE THEN ui[k] ELSE options[w][1][k]
        /\ \A ui \in GeneralFiltersFinalizeInputs(result[w]) :
              async_step_general_filters(w, ui) =>
                  /\ options'[w][1].filter # NONE
                  /\ \A k \in OptionKeys \ {"filter"} : options'[w][1][k] = options[w][1][k]
        /\ \A ui \in EventsFinalizeInputs(result[w]) :
              async_step_events(w, ui) =>
                  /\ result'[w].type = "create_entry"
                  /\ result'[w].title = ""
                  /\ result'[w].data = Some(entryOptions')
                  /\ entryOptions'.subscribe_events = Some(Get(ui.subscribe_events, <<>>))
                  /\ entryOptions'.filter # NONE
                  /\ \A k \in OptionKeys \ {"subscribe_events"} :
                        entryOptions'[k] = options[w][1][k]
      ]_vars

\* The entry held a prefix, an included and an excluded entity; the completed
\* wizard submitted no prefix and another included entity, and only these are
\* written.
C12_Witness ==
    /\ step[1] = "done"
    /\ writes = 1
    /\ heap[EntryRef] = <<FilterA, FilterB>>
    /\ entryOptions.entity_prefix = NONE
    /\ entryOptions.include_entities = Some(<<<<"s", ".", "c">>>>)
    /\ entryOptions.exclude_entities = NONE
    /\ entryOptions.subscribe_events = Some(<<"e1">>)

\* C13: on first entry to general_filters the in-memory filter list is the
\* persisted filter list (empty when none is persisted) and every one of its
\* display strings is offered and pre-selected; on first entry to events the
\* event set, and the choices offered, are the set of the persisted subscribed
\* events (empty when none or an empty list is persisted).
C13_SeededFromEntry ==
    [][\A w \in Wizards :
        /\ (step[w] = "domain_entity_filters" /\ step'[w] = "general_filters") =>
              /\ heap'[filters'[w][1]] = PersistedFilters
              /\ entryOptions.filter = NONE => heap'[filters'[w][1]] = <<>>
              /\ result'[w].strings = filter_strings(PersistedFilters)
              /\ result'[w].selected = result'[w].strings
        /\ (step[w] = "general_filters" /\ step'[w] = "events") =>
              /\ events'[w] = Some(Range(Get(entryOptions.subscribe_events, <<>>)))
              /\ result'[w].event_options = Range(Get(entryOptions.subscribe_events, <<>>))
              /\ entryOptions.subscribe_events \in {NONE, Some(<<>>)} => events'[w] = Some({})
      ]_vars

\* The events form is shown for the first time to a wizard that added nothing:
\* its event set is the persisted one, as its filter list was.
C13_Witness ==
    /\ step[1] = "events"
    /\ submitted[1] = <<"init", "domain_entity_filters", "general_filters">>
    /\ entryOptions.subscribe_events = Some(<<"e1">>)
    /\ events[1] = Some({"e1"})
    /\ FilterList(1) = <<FilterA, FilterB>>
    /\ PersistedFilters = <<FilterA, FilterB>>

\* C14: an add submission of the events step stays on the events step and
\* shows the events form again; nothing is written to the entry or the draft;
\* the new name is in the event set, in the offered choices and in the
\* pre-selection; every event of the set before is still in it; the set grows
\* by one if the name was new and not at all if it was a member.
C14_AddEventStays ==
    [][\A w \in Wizards : \A ui \in EventsAddInputs(result[w]) :
        async_step_events(w, ui) =>
            LET name == ui.add_new_event[1]
                before == events[w][1]
                after == events'[w][1]
            IN  /\ step'[w] = "events"
                /\ result'[w].type = "form"
                /\ result'[w].step_id = "events"
                /\ writes' = writes
                /\ entryOptions' = entryOptions
                /\ options'[w] = options[w]
                /\ name \in after
                /\ result'[w].event_options = after
                /\ name \in Range(Get(result'[w].event_selected, <<>>))
                /\ before \subseteq after
                /\ Cardinality(after) =
                      Cardinality(before) + (IF name \in before THEN 0 ELSE 1)
      ]_vars

\* A new name and then a name already in the set were added: the set holds two.
C14_Witness ==
    /\ step[1] = "events"
    /\ entryOptions.subscribe_events = Some(<<"e1">>)
    /\ events[1] = Some({"e1", "e2"})
    /\ readded[1] = {"e1"}
    /\ writes = 0

\* The persisted value of key k when it is present and not empty, else no default
PersistedOrUndefined(k) ==
    IF entryOptions[k] = NONE THEN NONE
    ELSE IF Len(entryOptions[k][1]) = 0 THEN NONE
    ELSE entryOptions[k]

\* C15: every default the forms take from the default-value helper is the
\* persisted value of its key when that is present and not empty, and no
\* default when the key is absent or its value is empty; so the events form
\* has no pre-selection on first entry when the persisted subscribed-events
\* list is empty.
C15_DefaultOrUndefined ==
    [][\A w \in Wizards :
        /\ (step[w] = "init" /\ step'[w] = "domain_entity_filters") =>
              /\ result'[w].default_include_domains = PersistedOrUndefined("include_domains")
              /\ result'[w].default_include_entities = PersistedOrUndefined("include_entities")
              /\ result'[w].default_exclude_domains = PersistedOrUndefined("exclude_domains")
              /\ result'[w].default_exclude_entities = PersistedOrUndefined("exclude_entities")
        /\ (step[w] = "general_filters" /\ step'[w] = "events") =>
              /\ result'[w].event_selected = PersistedOrUndefined("subscribe_events")
              /\ entryOptions.subscribe_events = Some(<<>>) => result'[w].event_selected = NONE
      ]_vars

\* The events form is shown for the first time while the entry holds an empty
\* subscribed-events list: nothing is pre-selected.
C15_Witness ==
    /\ step[1] = "events"
    /\ submitted[1] = <<"init", "domain_entity_filters", "general_filters">>
    /\ entryOptions.subscribe_events = Some(<<>>)
    /\ result[1].event_selected = NONE

\* C16: whenever a step shows the general_filters form, its choices are the
\* display strings of the filter list as it then is and every pre-selected
\* string is one of them; whenever a step shows the events form, its choices
\* are the event set as it then is and every pre-selected name is a member.
C16_DefaultsAreChoices ==
    [][\A w \in Wizards :
        result'[w] # result[w] =>
            /\ step'[w] = "general_filters" =>
                  /\ result'[w].step_id = "general_filters"
                  /\ result'[w].strings = filter_strings(heap'[filters'[w][1]])
                  /\ Range(result'[w].selected) \subseteq Range(result'[w].strings)
            /\ step'[w] = "events" =>
                  /\ result'[w].step_id = "events"
                  /\ result'[w].event_options = events'[w][1]
                  /\ Range(Get(result'[w].event_selected, <<>>))
                        \subseteq result'[w].event_options
      ]_vars

\* After a filter and an event were added, the events form pre-selects two of
\* the names it offers.
C16_Witness ==
    /\ step[1] = "events"
    /\ heap[EntryRef] = <<FilterA, FilterB, FilterA>>
    /\ result[1].event_selected = Some(<<"e1", "e2">>)
    /\ result[1].event_options = {"e1", "e2"}

\* C17: the leading index of every string the general_filters form offers is
\* a position of the in-memory filter list, so every selection made of
\* offered strings selects valid positions only; a finalize submission with
\* such a selection raises nothing and goes on to events, and the stored list
\* holds, for each selected string in turn, the record at the position of
\* that string among the choices: only records of the in-memory list are
\* stored, and no record of an unselected position is.
C17_SelectedIndicesValid ==
    [][\A w \in Wizards :
        step[w] = "general_filters" =>
            LET fl == FilterList(w)
            IN  /\ \A s \in Range(result[w].strings) :
                      /\ IsIntStr(SplitDot0(s))
                      /\ StrToInt(SplitDot0(s)) - 1 >= 0
                      /\ StrToInt(SplitDot0(s)) - 1 < Len(fl)
                /\ step'[w] # "general_filters" =>
                      \A ui \in GeneralFiltersFinalizeInputs(result[w]) :
                          async_step_general_filters(w, ui) =>
                              LET sel == Get(ui.filter, <<>>)
                                  stored == heap'[DraftRef(w)]
                              IN  /\ result'[w].type = "form"
                                  /\ step'[w] = "events"
                                  /\ options'[w][1].filter = Some(DraftRef(w))
                                  /\ Range(stored) \subseteq Range(fl)
                                  /\ Len(stored) = Len(sel)
                                  /\ \A i \in 1..Len(sel) :
                                        \E k \in 1..Len(fl) :
                                            /\ result[w].strings[k] = sel[i]
                                            /\ stored[i] = fl[k]
      ]_vars

\* A filter was added to the two persisted ones and only the second persisted
\* one was selected at finalize: the added filter is not stored.
C17_Witness ==
    /\ step[1] = "events"
    /\ heap[EntryRef] = <<FilterA, FilterB, FilterA>>
    /\ options[1][1].filter = Some(DraftRef(1))
    /\ heap[DraftRef(1)] = <<FilterB>>

\* No step of the wizard is stuck: the wizard is never left by an exception;
\* on general_filters every finalize submission made of offered strings is
\* accepted and so is an add; on events the finalize and an add are accepted
\* (an add as long as the lists are below MaxFilters and MaxSelected).
NotStuck ==
    /\ step[1] # "error"
    /\ step[1] = "general_filters" =>
          /\ \A ui \in GeneralFiltersFinalizeInputs(result[1]) :
                selection_ok(FilterList(1), Get(ui.filter, <<>>))
          /\ ENABLED ConcFinalizeFilters(1)
          /\ Len(FilterList(1)) < MaxFilters => ENABLED ConcAddFilter(1)
    /\ step[1] = "events" =>
          /\ ENABLED ConcFinalizeEvents(1)
          /\ Len(Get(result[1].event_selected, <<>>)) < MaxSelected
                => ENABLED ConcAddEvent(1)

\* C18: no reachable state of the wizard is stuck, the entry's options are
\* written at most once, and an open wizard whose user finalizes
\* general_filters and events after finitely many adds ends completed, with
\* exactly one write of the entry's options.
C18_WizardCompletes ==
    /\ [](NotStuck /\ writes <= 1)
    /\ (step[1] \in ActiveSteps) ~> (step[1] = "done" /\ writes = 1)

\* The wizard completed after two filters and an event were added.
C18_Witness ==
    /\ step[1] = "done"
    /\ writes = 1
    /\ heap[EntryRef] = <<>>
    /\ Len(PersistedFilters) = 2
    /\ entryOptions.subscribe_events = Some(<<"e1">>)

\* d is the text of entity id e before its first "."
IsDomainOf(d, e) ==
    /\ IsPrefix(d \o <<".">>, e)
    /\ \A i \in 1..Len(d) : d[i] # "."

\* The list is in ascending order without a repeated value
StrictlySorted(list) ==
    \A i, j \in 1..Len(list) : i < j => StrLess(list[i], list[j])

\* C19: in the domain_entity_filters form, the include and the exclude fields
\* offer the same domains and the same entities; every offered domain is the
\* domain of an offered entity, the domain of every offered entity is
\* offered, and both lists are sorted and hold no value twice.
C19_DomainsOfEntities ==
    \A w \in Wizards :
        result[w].step_id = "domain_entity_filters" =>
            LET doms == result[w].options_include_domains
                ents == result[w].options_include_entities
            IN  /\ result[w].options_exclude_domains = doms
                /\ result[w].options_exclude_entities = ents
                /\ \A d \in Range(doms) : \E e \in Range(ents) : IsDomainOf(d, e)
                /\ \A e \in Range(ents) : \E d \in Range(doms) : IsDomainOf(d, e)
                /\ StrictlySorted(doms)
                /\ StrictlySorted(ents)

\* Three entities of two domains are offered: the domain two of them share is
\* offered once, and "l" comes before "s".
C19_Witness ==
    /\ step[1] = "domain_entity_filters"
    /\ result[1].options_include_entities =
          <<<<"l", ".", "b">>, <<"s", ".", "a">>, <<"s", ".", "c">>>>
    /\ result[1].options_include_domains = <<<<"l">>, <<"s">>>>

====
